---- MODULE Spec2Model ----
(***************************************************************************)
(* A model of package rununtil (rununtil.go): the mutex-protected          *)
(* registry of finish channels (canceller), AwaitKillSignals racing an OS  *)
(* signal channel against its finish channel, CancelAll, and the           *)
(* deprecated Killed harness.                                              *)
(*                                                                         *)
(* Goroutines: one per AwaitKillSignals call (Calls), a test goroutine     *)
(* that may call CancelAll any number of times ("test"), and the           *)
(* killMainWhenDone goroutine started by runMain ("kill").                 *)
(*                                                                         *)
(* The program under analysis has a function main that calls               *)
(* AwaitKillSignals(killSignals, runnerFuncs...); its arguments are chosen *)
(* in Init.  Spec is the program that starts main NumCalls times           *)
(* (`go main()`) and cancels with CancelAll or an OS signal.  SpecKilled   *)
(* is the program that runs main once, as call MainCall, under Killed.     *)
(***************************************************************************)
EXTENDS Naturals, Sequences, FiniteSets, TLC

\* ---------------------------------------------------------------- bounds
NumCalls == 2
MaxRunners == 2

\* ------------------------------------------------------------- constants
\* c := make(chan os.Signal, 1)
SigChanCap == 1

Calls == 1..NumCalls
MainCall == 1
Cancellers == {"test", "kill"}

\* The signals of the platform, and those the environment sends to the process
\* in this model (SIGTERM behaves as SIGINT does: both are in the default set).
Signals == {"SIGINT", "SIGTERM", "SIGHUP"}
SentSignals == {"SIGINT", "SIGHUP"}
\* AwaitKillSignal: []os.Signal{syscall.SIGINT, syscall.SIGTERM}
DefaultSignals == {"SIGINT", "SIGTERM"}
\* The signal sets a caller passes to AwaitKillSignals in this model: the
\* default set of AwaitKillSignal, and the empty set (Signals(runner) with
\* no variadic signal).
SignalSets == {DefaultSignals, {}}
\* The runnerFuncs a caller passes: n runners, the i-th one named i.
RunnerSeqs == {[i \in 1..n |-> i] : n \in 0..MaxRunners}

VARIABLES
    killSignals,   \* the signals argument main passes to AwaitKillSignals
    runnerFuncs,   \* the runnerFuncs argument main passes to AwaitKillSignals
    pc,            \* pc[p]: where call p is in AwaitKillSignals
    watched,       \* watched[p]: the signals relayed to c[p] ({}: not subscribed)
    c,             \* c[p]: the buffered os.Signal channel of call p
    deferred,      \* deferred[p]: the defer stack of call p (last pushed runs first)
    completed,     \* completed[p]: the shutdown callbacks executed, in order
    wokenBy,       \* wokenBy[p]: the select case call p took ("none" before)
    delivered,     \* delivered[p]: a signal was sent to c[p] (history)
    closed,        \* closed[ch]: finish channel ch has been closed
    signals,       \* globalCanceller.signals: key -> finish channel
    mux,           \* globalCanceller.mux: TRUE when locked
    cpc,           \* cpc[t]: where canceller goroutine t is in cancelAll
    rangeKeys,     \* rangeKeys[t]: the keys the range loop of t started with
    visited,       \* visited[t]: the keys the range loop of t has produced
    key,           \* key[t]: the loop variable of t
    ctxDone,       \* the context of Killed has been cancelled
    killedPc,      \* the harness: "none", "spawned" (go runMain), "running"
    panicked       \* a goroutine panicked (close of a closed channel)

argVars == <<killSignals, runnerFuncs>>
callVars == <<pc, watched, c, deferred, completed, wokenBy, delivered>>
registryVars == <<signals, mux, closed>>
cancelVars == <<cpc, rangeKeys, visited, key>>
harnessVars == <<ctxDone, killedPc>>
vars == <<killSignals, runnerFuncs, pc, watched, c, deferred, completed, wokenBy,
          delivered, closed, signals, mux, cpc, rangeKeys, visited, key,
          ctxDone, killedPc, panicked>>

\* ---------------------------------------------------------------- helpers
\* uuid.New().String(): a key no other call uses.
Uuid(p) == p
\* finish := make(chan struct{}): the finish channel of call p.
Finish(p) == p

EmptyMap == [k \in {} |-> 0]
\* m[k] = v
MapSet(m, k, v) == [x \in DOMAIN m \cup {k} |-> IF x = k THEN v ELSE m[x]]
\* delete(m, k)
MapDelete(m, k) == [x \in DOMAIN m \ {k} |-> m[x]]

\* Mutant of Notify: every signal is relayed, whatever was asked for.
NotifyEverything(sigs) == Signals

\* signal.Notify(c, sigs...): no signal given means every signal is relayed.
Notify(sigs) == IF sigs = {} THEN Signals ELSE sigs

\* Mutant of Remaining: the loop body returns after its first iteration.
RemainingFirstOnly(t) ==
    IF visited[t] = {} THEN rangeKeys[t] \cap DOMAIN signals ELSE {}

\* The keys a range loop over the map still has to produce: an entry removed
\* before it is reached is not produced.
Remaining(t) == (rangeKeys[t] \ visited[t]) \cap DOMAIN signals

\* The goroutines inside the critical section of globalCanceller.mux.
InAddChannel == {p \in Calls : pc[p] = "store"}
InCancelAll == {t \in Cancellers : cpc[t] \in {"range", "delete"}}

\* ------------------------------------------------------------------- Init
\* init(): the map is made, the mutex is unlocked.
Init ==
    /\ killSignals \in SignalSets
    /\ runnerFuncs \in RunnerSeqs
    /\ pc = [p \in Calls |-> "idle"]
    /\ watched = [p \in Calls |-> {}]
    /\ c = [p \in Calls |-> <<>>]
    /\ deferred = [p \in Calls |-> <<>>]
    /\ completed = [p \in Calls |-> <<>>]
    /\ wokenBy = [p \in Calls |-> "none"]
    /\ delivered = [p \in Calls |-> FALSE]
    /\ closed = [p \in Calls |-> FALSE]
    /\ signals = EmptyMap
    /\ mux = FALSE
    /\ cpc = [t \in Cancellers |-> IF t = "test" THEN "off" ELSE "none"]
    /\ rangeKeys = [t \in Cancellers |-> {}]
    /\ visited = [t \in Cancellers |-> {}]
    /\ key = [t \in Cancellers |-> 0]
    /\ ctxDone = FALSE
    /\ killedPc = "none"
    /\ panicked = FALSE

\* ------------------------------------------------------- AwaitKillSignals
\* The call is entered: c is made and subscribed, finish and uuid are made.
AwaitKillSignals(p, sigs) ==
    /\ ~panicked
    /\ pc[p] = "idle"
    /\ pc' = [pc EXCEPT ![p] = "addChannel"]
    /\ watched' = [watched EXCEPT ![p] = Notify(sigs)]
    /\ c' = [c EXCEPT ![p] = <<>>]
    /\ UNCHANGED <<deferred, completed, wokenBy, delivered>>
    /\ UNCHANGED <<argVars, registryVars, cancelVars, harnessVars, panicked>>

\* Mutant of addChannelLock: addChannel does not wait for the mutex.
addChannelNoLock(p) ==
    /\ ~panicked
    /\ pc[p] = "addChannel"
    /\ mux' = TRUE
    /\ pc' = [pc EXCEPT ![p] = "store"]
    /\ UNCHANGED <<watched, c, deferred, completed, wokenBy, delivered>>
    /\ UNCHANGED <<argVars, signals, closed, cancelVars, harnessVars, panicked>>

\* canc.mux.Lock()
addChannelLock(p) ==
    /\ ~panicked
    /\ pc[p] = "addChannel"
    /\ ~mux
    /\ mux' = TRUE
    /\ pc' = [pc EXCEPT ![p] = "store"]
    /\ UNCHANGED <<watched, c, deferred, completed, wokenBy, delivered>>
    /\ UNCHANGED <<argVars, signals, closed, cancelVars, harnessVars, panicked>>

\* Where the call goes after the runner loop's i-th iteration.
\* Mutant of AfterRunner: the loop is left after any iteration.
AfterRunnerLeavesLoop(i) == "select"

AfterRunner(i) == IF i >= Len(runnerFuncs) THEN "select" ELSE "runners"

\* Mutant of addChannel: the mutex is not unlocked on return.
addChannelNoUnlock(p) ==
    /\ ~panicked
    /\ pc[p] = "store"
    /\ signals' = MapSet(signals, Uuid(p), Finish(p))
    /\ pc' = [pc EXCEPT ![p] = AfterRunner(0)]
    /\ UNCHANGED <<watched, c, deferred, completed, wokenBy, delivered>>
    /\ UNCHANGED <<argVars, mux, closed, cancelVars, harnessVars, panicked>>

\* Mutant of addChannel: what c has received before the registration is
\* thrown away.
addChannelDropsPending(p) ==
    /\ ~panicked
    /\ pc[p] = "store"
    /\ signals' = MapSet(signals, Uuid(p), Finish(p))
    /\ mux' = FALSE
    /\ pc' = [pc EXCEPT ![p] = AfterRunner(0)]
    /\ c' = [c EXCEPT ![p] = <<>>]
    /\ UNCHANGED <<watched, deferred, completed, wokenBy, delivered>>
    /\ UNCHANGED <<argVars, closed, cancelVars, harnessVars, panicked>>

\* canc.signals[key] = c; the deferred canc.mux.Unlock(); addChannel returns
\* into the runner loop.
addChannel(p) ==
    /\ ~panicked
    /\ pc[p] = "store"
    /\ signals' = MapSet(signals, Uuid(p), Finish(p))
    /\ mux' = FALSE
    /\ pc' = [pc EXCEPT ![p] = AfterRunner(0)]
    /\ UNCHANGED <<watched, c, deferred, completed, wokenBy, delivered>>
    /\ UNCHANGED <<argVars, closed, cancelVars, harnessVars, panicked>>

\* Mutant of Defer: the callbacks are queued, first in first out.
DeferQueued(stack, shutdown) == <<shutdown>> \o stack

\* The defer stack after `defer shutdown()`.
Defer(stack, shutdown) == Append(stack, shutdown)

\* Mutant of RunRunner: the loop is abandoned once finish is closed.
RunRunnerUnlessCancelled(p) ==
    /\ ~panicked
    /\ pc[p] = "runners"
    /\ LET i == Len(deferred[p]) + 1 IN
        IF closed[Finish(p)]
        THEN /\ pc' = [pc EXCEPT ![p] = "select"]
             /\ UNCHANGED deferred
        ELSE /\ deferred' = [deferred EXCEPT ![p] = Defer(@, runnerFuncs[i])]
             /\ pc' = [pc EXCEPT ![p] = AfterRunner(i)]
    /\ UNCHANGED <<watched, c, completed, wokenBy, delivered>>
    /\ UNCHANGED <<argVars, registryVars, cancelVars, harnessVars, panicked>>

\* One iteration of the runner loop: shutdown := runner(); defer shutdown()
RunRunner(p) ==
    /\ ~panicked
    /\ pc[p] = "runners"
    /\ LET i == Len(deferred[p]) + 1 IN
        /\ deferred' = [deferred EXCEPT ![p] = Defer(@, runnerFuncs[i])]
        /\ pc' = [pc EXCEPT ![p] = AfterRunner(i)]
    /\ UNCHANGED <<watched, c, completed, wokenBy, delivered>>
    /\ UNCHANGED <<argVars, registryVars, cancelVars, harnessVars, panicked>>

\* Mutant of SignalReady: the select has no case for c.
SignalNeverReady(p) == FALSE

\* Mutant of FinishReady: receiving from finish never blocks.
FinishAlwaysReady(p) == TRUE

\* The cases of the select that are ready.
SignalReady(p) == c[p] # <<>>
FinishReady(p) == closed[Finish(p)]

\* Mutant of AfterSelect: the function returns without its deferred calls.
AfterSelectNoDefer(stack) == "done"

\* Where the call goes when nothing is left to execute before the deferred
\* calls of the stack: to the next of them, or back to its caller.
AfterSelect(stack) == IF stack = <<>> THEN "done" ELSE "deferred"

\* Mutant of Select: the finish case leaves without the deferred calls.
SelectFinishSkipsShutdown(p) ==
    /\ ~panicked
    /\ pc[p] = "select"
    /\ \/ /\ c[p] # <<>>
          /\ c' = [c EXCEPT ![p] = Tail(@)]
          /\ wokenBy' = [wokenBy EXCEPT ![p] = "signal"]
          /\ pc' = [pc EXCEPT ![p] = IF deferred[p] = <<>> THEN "done" ELSE "deferred"]
       \/ /\ closed[Finish(p)]
          /\ wokenBy' = [wokenBy EXCEPT ![p] = "finish"]
          /\ pc' = [pc EXCEPT ![p] = "done"]
          /\ UNCHANGED c
    /\ UNCHANGED <<watched, deferred, completed, delivered>>
    /\ UNCHANGED <<argVars, registryVars, cancelVars, harnessVars, panicked>>

\* Mutant of Select: a call woken by a signal removes its own entry.
SelectSignalUnregisters(p) ==
    /\ ~panicked
    /\ pc[p] = "select"
    /\ \/ /\ SignalReady(p)
          /\ c' = [c EXCEPT ![p] = Tail(@)]
          /\ wokenBy' = [wokenBy EXCEPT ![p] = "signal"]
          /\ signals' = MapDelete(signals, Uuid(p))
       \/ /\ FinishReady(p)
          /\ wokenBy' = [wokenBy EXCEPT ![p] = "finish"]
          /\ UNCHANGED <<c, signals>>
    /\ pc' = [pc EXCEPT ![p] = AfterSelect(deferred[p])]
    /\ UNCHANGED <<watched, deferred, completed, delivered>>
    /\ UNCHANGED <<argVars, mux, closed, cancelVars, harnessVars, panicked>>

\* select { case <-c: ; case <-finish: }
Select(p) ==
    /\ ~panicked
    /\ pc[p] = "select"
    /\ \/ /\ SignalReady(p)
          /\ c' = [c EXCEPT ![p] = Tail(@)]
          /\ wokenBy' = [wokenBy EXCEPT ![p] = "signal"]
       \/ /\ FinishReady(p)
          /\ wokenBy' = [wokenBy EXCEPT ![p] = "finish"]
          /\ UNCHANGED c
    /\ pc' = [pc EXCEPT ![p] = AfterSelect(deferred[p])]
    /\ UNCHANGED <<watched, deferred, completed, delivered>>
    /\ UNCHANGED <<argVars, registryVars, cancelVars, harnessVars, panicked>>

\* The deferred call that runs next, the last one pushed, and the stack
\* without it.
NextDeferred(stack) == stack[Len(stack)]
PopDeferred(stack) == SubSeq(stack, 1, Len(stack) - 1)

\* The function returns: the next deferred shutdown() is executed; after the
\* last one the call is back at its caller.
Deferred(p) ==
    /\ ~panicked
    /\ pc[p] = "deferred"
    /\ completed' = [completed EXCEPT ![p] = Append(@, NextDeferred(deferred[p]))]
    /\ deferred' = [deferred EXCEPT ![p] = PopDeferred(@)]
    /\ pc' = [pc EXCEPT ![p] = AfterSelect(PopDeferred(deferred[p]))]
    /\ UNCHANGED <<watched, c, wokenBy, delivered>>
    /\ UNCHANGED <<argVars, registryVars, cancelVars, harnessVars, panicked>>

\* ------------------------------------------------------------ OS signals
\* The os/signal package relays signal s to every subscribed channel that
\* wants it and has room for it (a non-blocking send).  A signal that reaches
\* no channel changes nothing here (the default action of a signal no channel
\* wants is outside this model).  A call never reads c again after its
\* select: what is sent to c later is not modelled.
Relayed(p, s) ==
    /\ s \in watched[p]
    /\ pc[p] \in {"addChannel", "store", "runners", "select"}
    /\ Len(c[p]) < SigChanCap

DeliverSignal(s) ==
    /\ ~panicked
    /\ \E p \in Calls : Relayed(p, s)
    /\ c' = [p \in Calls |-> IF Relayed(p, s) THEN Append(c[p], s) ELSE c[p]]
    /\ delivered' = [p \in Calls |-> delivered[p] \/ Relayed(p, s)]
    /\ UNCHANGED <<pc, watched, deferred, completed, wokenBy>>
    /\ UNCHANGED <<argVars, registryVars, cancelVars, harnessVars, panicked>>

\* -------------------------------------------------------------- CancelAll
\* Mutant of cancelAllLock: cancelAll does not take the mutex.
cancelAllNoLock(t) ==
    /\ ~panicked
    /\ mux' = TRUE
    /\ cpc' = [cpc EXCEPT ![t] = "range"]
    /\ rangeKeys' = [rangeKeys EXCEPT ![t] = DOMAIN signals]
    /\ visited' = [visited EXCEPT ![t] = {}]
    /\ UNCHANGED <<key, signals, closed>>
    /\ UNCHANGED <<argVars, callVars, harnessVars, panicked>>

\* Mutant of cancelAllLock: a cancelAll is remembered, it also closes the
\* channel of every call that has not registered yet.
cancelAllCancelsFuture(t) ==
    /\ ~panicked
    /\ ~mux
    /\ mux' = TRUE
    /\ cpc' = [cpc EXCEPT ![t] = "range"]
    /\ rangeKeys' = [rangeKeys EXCEPT ![t] = DOMAIN signals]
    /\ visited' = [visited EXCEPT ![t] = {}]
    /\ closed' = [p \in Calls |-> closed[Finish(p)] \/ pc[p] \in {"idle", "addChannel"}]
    /\ UNCHANGED <<key, signals>>
    /\ UNCHANGED <<argVars, callVars, harnessVars, panicked>>

\* canc.mux.Lock(); the range loop starts.
cancelAllLock(t) ==
    /\ ~panicked
    /\ ~mux
    /\ mux' = TRUE
    /\ cpc' = [cpc EXCEPT ![t] = "range"]
    /\ rangeKeys' = [rangeKeys EXCEPT ![t] = DOMAIN signals]
    /\ visited' = [visited EXCEPT ![t] = {}]
    /\ UNCHANGED <<key, signals, closed>>
    /\ UNCHANGED <<argVars, callVars, harnessVars, panicked>>

\* CancelAll() is called by the test goroutine: globalCanceller.cancelAll()
\* is entered.
CancelAll ==
    /\ cpc["test"] = "off"
    /\ cancelAllLock("test")

\* for key := range canc.signals { close(canc.signals[key])
cancelAllClose(t) ==
    /\ ~panicked
    /\ cpc[t] = "range"
    /\ \E k \in Remaining(t) :
        /\ key' = [key EXCEPT ![t] = k]
        /\ visited' = [visited EXCEPT ![t] = @ \cup {k}]
        /\ IF closed[signals[k]]
             THEN panicked' = TRUE /\ UNCHANGED closed
             ELSE closed' = [closed EXCEPT ![signals[k]] = TRUE] /\ UNCHANGED panicked
    /\ cpc' = [cpc EXCEPT ![t] = "delete"]
    /\ UNCHANGED <<rangeKeys, signals, mux>>
    /\ UNCHANGED <<argVars, callVars, harnessVars>>

\* Mutant of cancelAllDelete: the entry is closed but not deleted.
cancelAllNoDelete(t) ==
    /\ ~panicked
    /\ cpc[t] = "delete"
    /\ cpc' = [cpc EXCEPT ![t] = "range"]
    /\ UNCHANGED <<rangeKeys, visited, key, signals, mux, closed>>
    /\ UNCHANGED <<argVars, callVars, harnessVars, panicked>>

\* delete(canc.signals, key) }
cancelAllDelete(t) ==
    /\ ~panicked
    /\ cpc[t] = "delete"
    /\ signals' = MapDelete(signals, key[t])
    /\ cpc' = [cpc EXCEPT ![t] = "range"]
    /\ UNCHANGED <<rangeKeys, visited, key, mux, closed>>
    /\ UNCHANGED <<argVars, callVars, harnessVars, panicked>>

\* Mutant of cancelAllUnlock: cancelAll returns without unlocking.
cancelAllNoUnlock(t) ==
    /\ ~panicked
    /\ cpc[t] = "range"
    /\ Remaining(t) = {}
    /\ cpc' = [cpc EXCEPT ![t] = IF t = "test" THEN "off" ELSE "exit"]
    /\ rangeKeys' = [rangeKeys EXCEPT ![t] = {}]
    /\ visited' = [visited EXCEPT ![t] = {}]
    /\ key' = [key EXCEPT ![t] = 0]
    /\ UNCHANGED <<signals, closed, mux>>
    /\ UNCHANGED <<argVars, callVars, harnessVars, panicked>>

\* The range loop is over: defer canc.mux.Unlock(), and cancelAll returns.
cancelAllUnlock(t) ==
    /\ ~panicked
    /\ cpc[t] = "range"
    /\ Remaining(t) = {}
    /\ mux' = FALSE
    /\ cpc' = [cpc EXCEPT ![t] = IF t = "test" THEN "off" ELSE "exit"]
    /\ rangeKeys' = [rangeKeys EXCEPT ![t] = {}]
    /\ visited' = [visited EXCEPT ![t] = {}]
    /\ key' = [key EXCEPT ![t] = 0]
    /\ UNCHANGED <<signals, closed>>
    /\ UNCHANGED <<argVars, callVars, harnessVars, panicked>>

\* ----------------------------------------------------------------- Killed
\* Killed(main): ctx, cancel := context.WithCancel(...); go runMain(ctx, main)
Killed ==
    /\ ~panicked
    /\ killedPc = "none"
    /\ killedPc' = "spawned"
    /\ UNCHANGED <<ctxDone, argVars, callVars, registryVars, cancelVars, panicked>>

\* runMain up to its call of main(): go killMainWhenDone(ctx, p)
runMain ==
    /\ ~panicked
    /\ killedPc = "spawned"
    /\ killedPc' = "running"
    /\ cpc' = [cpc EXCEPT !["kill"] = "ctxwait"]
    /\ UNCHANGED <<rangeKeys, visited, key>>
    /\ UNCHANGED <<ctxDone, argVars, callVars, registryVars, panicked>>

\* main calls AwaitKillSignals(killSignals, runnerFuncs...).
main(p) == AwaitKillSignals(p, killSignals)

\* runMain: main()
runMainCall ==
    /\ killedPc = "running"
    /\ main(MainCall)

\* The cancel function Killed returned is executed.
cancel ==
    /\ ~panicked
    /\ killedPc # "none"
    /\ ~ctxDone
    /\ ctxDone' = TRUE
    /\ UNCHANGED <<killedPc, argVars, callVars, registryVars, cancelVars, panicked>>

\* killMainWhenDone: <-ctx.Done() is received and CancelAll() is called.
killMainWhenDone ==
    /\ cpc["kill"] = "ctxwait"
    /\ ctxDone
    /\ cancelAllLock("kill")

\* ------------------------------------------------------------------- Next
\* The steps of call p between its entry and its return, but for mux.Lock().
CallStep(p) ==
    \/ addChannel(p)
    \/ RunRunner(p)
    \/ Select(p)
    \/ Deferred(p)

\* The steps of cancelAll inside its critical section.
CancelStep(t) ==
    \/ cancelAllClose(t)
    \/ cancelAllDelete(t)
    \/ cancelAllUnlock(t)

Next ==
    \/ \E p \in Calls : main(p)
    \/ \E p \in Calls : addChannelLock(p)
    \/ \E p \in Calls : addChannel(p)
    \/ \E p \in Calls : RunRunner(p)
    \/ \E p \in Calls : Select(p)
    \/ \E p \in Calls : Deferred(p)
    \/ \E s \in SentSignals : DeliverSignal(s)
    \/ CancelAll
    \/ cancelAllClose("test")
    \/ cancelAllDelete("test")
    \/ cancelAllUnlock("test")

Spec == Init /\ [][Next]_vars

\* The scheduler runs every goroutine that can take a step; sync.Mutex hands
\* the lock to a goroutine that keeps waiting for it (starvation mode).  The
\* callers of main, CancelAll, Killed and cancel, and the OS, are under no
\* obligation to act.
Fairness ==
    /\ \A p \in Calls : WF_vars(CallStep(p)) /\ SF_vars(addChannelLock(p))
    /\ \A t \in Cancellers : WF_vars(CancelStep(t))

FairSpec == Spec /\ Fairness

\* The program under Killed: main runs once, as call MainCall.
NextKilled ==
    \/ Killed
    \/ runMain
    \/ runMainCall
    \/ cancel
    \/ killMainWhenDone
    \/ addChannelLock(MainCall)
    \/ addChannel(MainCall)
    \/ RunRunner(MainCall)
    \/ Select(MainCall)
    \/ Deferred(MainCall)
    \/ \E s \in SentSignals : DeliverSignal(s)
    \/ CancelAll
    \/ \E t \in Cancellers : cancelAllClose(t)
    \/ \E t \in Cancellers : cancelAllDelete(t)
    \/ \E t \in Cancellers : cancelAllUnlock(t)

SpecKilled == Init /\ [][NextKilled]_vars

FairSpecKilled ==
    /\ SpecKilled
    /\ Fairness
    /\ WF_vars(runMain)
    /\ WF_vars(runMainCall)
    /\ SF_vars(killMainWhenDone)

\* ----------------------------------------------------------------- claims
\* The elements of a sequence.
Range(seq) == {seq[i] : i \in DOMAIN seq}

\* Call p has returned to its caller.
Returned(p) == pc[p] = "done"
\* Call p is blocked in (or about to enter) its select.
Blocked(p) == pc[p] = "select"

\* C1: the shutdown callbacks of a call are executed in exactly the reverse of
\* the order in which their runners were invoked: the a-th callback executed
\* is the one of the a-th runner counted from the last, so the callback of
\* runner j is executed only after those of all runners k > j.
C1_ReverseOrder ==
    \A p \in Calls :
        /\ Len(completed[p]) <= Len(runnerFuncs)
        /\ \A a \in DOMAIN completed[p] :
               completed[p][a] = runnerFuncs[Len(runnerFuncs) - a + 1]

\* A call with two runners has executed both callbacks and returned.
C1_Witness ==
    \E p \in Calls :
        /\ Returned(p)
        /\ Len(runnerFuncs) >= 2
        /\ Len(completed[p]) = Len(runnerFuncs)

\* C2: when a call has returned, the shutdown callback of every runner has
\* been executed exactly once and none is pending.
C2_AllShutdownOnce ==
    \A p \in Calls :
        Returned(p) =>
            /\ deferred[p] = <<>>
            /\ \A i \in DOMAIN runnerFuncs :
                   Cardinality({a \in DOMAIN completed[p] :
                                    completed[p][a] = runnerFuncs[i]}) = 1
            /\ Range(completed[p]) \subseteq Range(runnerFuncs)

\* A call with runners, woken by CancelAll, has returned.
C2_Witness ==
    \E p \in Calls :
        /\ Returned(p)
        /\ runnerFuncs # <<>>
        /\ wokenBy[p] = "finish"

\* C3: a call executes no shutdown callback and does not return before a
\* signal was sent to its channel c or CancelAll closed its finish channel.
C3_NoShutdownBeforeWake ==
    \A p \in Calls :
        (pc[p] \in {"deferred", "done"} \/ completed[p] # <<>>) =>
            (delivered[p] \/ closed[Finish(p)])

\* A call has returned after a signal, its finish channel never closed.
C3_Witness ==
    \E p \in Calls :
        /\ Returned(p)
        /\ delivered[p]
        /\ ~closed[Finish(p)]

\* C4: every call that is blocked in its select while a cancelAll is under
\* way eventually returns, whether or not a signal is ever sent: one CancelAll
\* wakes all the blocked calls.
C4_CancelAllWakesAll ==
    \A p \in Calls :
        (Blocked(p) /\ InCancelAll # {}) ~> Returned(p)

\* One cancelAll has closed the channels of all NumCalls calls while they
\* were blocked, and no signal was sent.
C4_Witness ==
    /\ cpc["test"] = "range"
    /\ rangeKeys["test"] = {Uuid(p) : p \in Calls}
    /\ \A p \in Calls : Blocked(p) /\ closed[Finish(p)] /\ ~delivered[p]

\* C5: a blocked call to whose channel a watched signal has been sent
\* eventually returns, without any CancelAll.
C5_SignalWakes ==
    \A p \in Calls :
        (Blocked(p) /\ c[p] # <<>>) ~> Returned(p)

\* A call with runners has shut down and returned after a signal, its entry
\* still registered: no cancelAll has swept it.
C5_Witness ==
    \E p \in Calls :
        /\ Returned(p)
        /\ wokenBy[p] = "signal"
        /\ runnerFuncs # <<>>
        /\ Uuid(p) \in DOMAIN signals

\* cancelAll is about to unlock and return.
AtUnlock(t) == cpc[t] = "range" /\ Remaining(t) = {}

\* C6: when cancelAll releases the lock the registry is empty, and every
\* channel that was registered when it started has been closed.
C6_RegistryEmptyAfterCancelAll ==
    \A t \in Cancellers :
        AtUnlock(t) =>
            /\ DOMAIN signals = {}
            /\ \A p \in Calls : Uuid(p) \in rangeKeys[t] => closed[Finish(p)]

\* A cancelAll that found NumCalls entries is about to return.
C6_Witness ==
    \E t \in Cancellers :
        /\ AtUnlock(t)
        /\ Cardinality(rangeKeys[t]) = NumCalls

\* C7: every step of cancelAll taken while the registry is empty leaves the
\* registry, the channels and every call as they are, closes and deletes
\* nothing, raises no panic, and leaves the mutex unlocked when it returns.
C7_CancelAllEmptyNoOp ==
    [][\A t \in Cancellers :
         (cpc'[t] # cpc[t] /\ signals = EmptyMap) =>
            /\ signals' = signals
            /\ closed' = closed
            /\ callVars' = callVars
            /\ panicked' = panicked
            /\ cpc'[t] \in {"range", "off", "exit"}
            /\ cpc'[t] \in {"off", "exit"} => ~mux']_vars

\* A CancelAll has entered with the registry empty, after an earlier one
\* swept the entry of a call.
C7_Witness ==
    /\ cpc["test"] = "range"
    /\ rangeKeys["test"] = {}
    /\ signals = EmptyMap
    /\ \E p \in Calls : closed[Finish(p)]

\* C8: two calls with the same runners that have returned, one woken by a
\* signal and one by CancelAll, have executed the same sequence of shutdown
\* callbacks.
C8_CancelAllAsSignal ==
    \A p, q \in Calls :
        (Returned(p) /\ wokenBy[p] = "signal" /\ Returned(q) /\ wokenBy[q] = "finish")
            => completed[p] = completed[q]

\* Two calls with two runners have returned, one after a signal and one after
\* CancelAll.
C8_Witness ==
    \E p, q \in Calls :
        /\ Returned(p) /\ wokenBy[p] = "signal"
        /\ Returned(q) /\ wokenBy[q] = "finish"
        /\ Len(completed[p]) >= 2

\* C9: under Killed, killMainWhenDone does not enter CancelAll before the
\* cancel function has been executed, and once it has been executed the
\* AwaitKillSignals call inside main eventually returns.
C9_KilledStopsMain ==
    /\ [](cpc["kill"] \in {"range", "delete", "exit"} => ctxDone)
    /\ (ctxDone ~> Returned(MainCall))

\* C10: an AwaitKillSignal call with no runners that has been started and is
\* followed by a CancelAll returns, with no shutdown callback executed.
C10_ZeroRunnersCancelAll ==
    \A p \in Calls :
        (/\ killSignals = DefaultSignals
         /\ runnerFuncs = <<>>
         /\ pc[p] # "idle"
         /\ cpc["test"] = "range")
            ~> (Returned(p) /\ completed[p] = <<>>)

\* Call p has subscribed its channel c.
Subscribed(p) == pc[p] # "idle"

\* C11 as stated: for every requested signal set, the empty one included, a
\* signal that is not a member of the set is neither relayed to the channel
\* of a call nor held in it.
C11_ExactlyRequestedSignals ==
    \A p \in Calls :
        /\ Range(c[p]) \subseteq killSignals
        /\ \A s \in SentSignals : Relayed(p, s) => s \in killSignals

\* C11 as amended: a call that asked for a non-empty set is subscribed to
\* exactly that set, and a signal outside it is neither relayed to its channel
\* nor held in it; a call that asked for no signal is subscribed to every
\* signal.
C11_ExactlyRequestedNonEmpty ==
    \A p \in Calls :
        /\ (Subscribed(p) /\ killSignals # {}) => watched[p] = killSignals
        /\ (Subscribed(p) /\ killSignals = {}) => watched[p] = Signals
        /\ killSignals # {} =>
              /\ Range(c[p]) \subseteq killSignals
              /\ \A s \in SentSignals : Relayed(p, s) => s \in killSignals

\* A call that asked for SIGINT and SIGTERM is blocked with room in c: SIGINT
\* would be relayed to it, SIGHUP is not.
C11_Witness ==
    \E p \in Calls :
        /\ Blocked(p)
        /\ killSignals = DefaultSignals
        /\ Relayed(p, "SIGINT")
        /\ ~Relayed(p, "SIGHUP")

\* C12: no close of a closed channel is ever attempted, and an entry of the
\* registry holds a closed channel only inside the critical section of the
\* cancelAll that has just closed it and deletes it next: whenever the mutex
\* is free, every entry holds a channel that has not been closed.
C12_NoClosedEntry ==
    /\ ~panicked
    /\ \A k \in DOMAIN signals :
          closed[signals[k]] =>
              /\ mux
              /\ \E t \in Cancellers : cpc[t] = "delete" /\ key[t] = k

\* killMainWhenDone has run its cancelAll, the channel of main is closed and
\* its entry deleted, and the test goroutine is inside a later cancelAll.
C12_Witness ==
    /\ cpc["kill"] = "exit"
    /\ cpc["test"] = "range"
    /\ closed[Finish(MainCall)]
    /\ Uuid(MainCall) \notin DOMAIN signals

\* addChannel of call p has returned.
Registered(p) == pc[p] \in {"runners", "select", "deferred", "done"}

\* C13: a registered channel is never dropped from the registry without
\* being closed: it is in the registry under its key or it has been closed;
\* and when a cancelAll returns, every channel registered so far has been
\* closed (one that was registered after an earlier cancelAll by this one).
C13_NoLostRegistration ==
    /\ \A p \in Calls :
          Registered(p) =>
              \/ Uuid(p) \in DOMAIN signals /\ signals[Uuid(p)] = Finish(p)
              \/ closed[Finish(p)]
    /\ \A t \in Cancellers :
          AtUnlock(t) => \A p \in Calls : Registered(p) => closed[Finish(p)]

\* A cancelAll has swept one call; another call, registered since, is still
\* in the registry with its channel open.
C13_Witness ==
    \E p, q \in Calls :
        /\ cpc["test"] = "off"
        /\ closed[Finish(q)] /\ Uuid(q) \notin DOMAIN signals
        /\ Registered(p) /\ ~closed[Finish(p)] /\ Uuid(p) \in DOMAIN signals

\* The number of goroutines inside a critical section of the mutex.
Holders == Cardinality(InAddChannel) + Cardinality(InCancelAll)

\* C14: the mutex is locked exactly when one goroutine is inside addChannel
\* or cancelAll, and never more than one is; so no call holds it while it
\* invokes runners, is blocked in its select or executes shutdown callbacks.
\* The map and the channels change only in steps taken with the mutex held.
C14_LockDiscipline ==
    /\ [](Holders <= 1 /\ (mux <=> Holders = 1))
    /\ [][(signals' # signals \/ closed' # closed) => (mux /\ Holders = 1)]_vars

\* cancelAll holds the mutex between close and delete while one call is
\* blocked in its select and another waits in addChannel for the mutex.
C14_Witness ==
    \E p, q \in Calls :
        /\ pc[p] = "select"
        /\ pc[q] = "addChannel"
        /\ cpc["test"] = "delete"
        /\ mux

\* The channel of call p has been stored in the registry (it is still there
\* or a cancelAll has closed it since).
ChannelStored(p) ==
    \/ Uuid(p) \in DOMAIN signals /\ signals[Uuid(p)] = Finish(p)
    \/ closed[Finish(p)]

\* C15: within one call the channel is registered before the first runner is
\* invoked, each step of the loop invokes exactly the next runner of the
\* argument list, and the call reaches its select only after every runner
\* has been invoked and has returned its shutdown callback.
C15_StartupOrder ==
    /\ [](\A p \in Calls :
            /\ pc[p] = "runners" =>
                  /\ ChannelStored(p)
                  /\ Len(deferred[p]) < Len(runnerFuncs)
                  /\ deferred[p] = SubSeq(runnerFuncs, 1, Len(deferred[p]))
            /\ pc[p] = "select" =>
                  /\ ChannelStored(p)
                  /\ deferred[p] = runnerFuncs)
    /\ [][\A p \in Calls :
            Len(deferred'[p]) > Len(deferred[p]) =>
                /\ pc[p] = "runners"
                /\ ChannelStored(p)
                /\ deferred'[p] =
                       Append(deferred[p], runnerFuncs[Len(deferred[p]) + 1])]_vars

\* A call given MaxRunners runners is in its select with every runner
\* invoked in order, while the other call is still between two runners.
C15_Witness ==
    \E p, q \in Calls :
        /\ Len(runnerFuncs) = MaxRunners
        /\ pc[p] = "select" /\ deferred[p] = runnerFuncs
        /\ pc[q] = "runners" /\ Len(deferred[q]) = 1

\* C16: a call woken by a signal leaves the registry as it is, in that step
\* and in every later step of its own; its entry stays, with the channel
\* open, until a cancelAll closes the channel and then deletes the entry.
C16_SignalWakeKeepsRegistry ==
    /\ [](\A p \in Calls :
            (pc[p] \in {"deferred", "done"} /\ wokenBy[p] = "signal") =>
                \/ Uuid(p) \in DOMAIN signals /\ signals[Uuid(p)] = Finish(p)
                \/ closed[Finish(p)] /\ Uuid(p) \notin DOMAIN signals)
    /\ [][\/ UNCHANGED <<signals, closed>>
          \/ \A p \in Calls :
                /\ ~(pc[p] \in {"select", "deferred"} /\ pc'[p] # pc[p])
                /\ ~(wokenBy'[p] = "signal" /\ wokenBy[p] # "signal")
                /\ (closed'[Finish(p)] /\ ~closed[Finish(p)]) =>
                      \E t \in Cancellers :
                          /\ cpc[t] = "range" /\ cpc'[t] = "delete"
                          /\ key'[t] = Uuid(p)
                /\ (Uuid(p) \in DOMAIN signals /\ Uuid(p) \notin DOMAIN signals') =>
                      \E t \in Cancellers :
                          /\ cpc[t] = "delete" /\ key[t] = Uuid(p)
                          /\ closed[Finish(p)]]_vars

\* A call woken by a signal has returned with its channel open and its entry
\* in the registry; a later cancelAll has just closed the channel of the
\* other call and has this entry still to visit.
C16_Witness ==
    \E p, q \in Calls :
        /\ Returned(p) /\ wokenBy[p] = "signal"
        /\ Uuid(p) \in DOMAIN signals /\ ~closed[Finish(p)]
        /\ cpc["test"] = "delete" /\ key["test"] = Uuid(q)
        /\ Uuid(p) \in Remaining("test")

\* The CancelAll of killMainWhenDone has returned and the call of main has
\* not stored its channel yet.
CancelledBeforeRegistered ==
    /\ cpc["kill"] = "exit"
    /\ pc[MainCall] \in {"idle", "addChannel", "store"}

CancelledInStartup(p) == pc[p] = "runners" /\ closed[Finish(p)]

\* C18: a cancelAll that closes the channel of a call while the call invokes
\* its runners is not lost and does not cut the loop short: the channel stays
\* closed, the next step of the call invokes the next runner, the select is
\* ready as soon as the call reaches it, and the call returns with the
\* callback of every runner executed.
C18_CancelDuringStartup ==
    /\ [][\A p \in Calls :
            /\ closed[Finish(p)] => closed'[Finish(p)]
            /\ (CancelledInStartup(p) /\ pc'[p] # "runners") =>
                  /\ pc'[p] = "select"
                  /\ deferred'[p] = runnerFuncs
            /\ (CancelledInStartup(p) /\ deferred'[p] # deferred[p]) =>
                  deferred'[p] =
                      Append(deferred[p], runnerFuncs[Len(deferred[p]) + 1])]_vars
    /\ [](\A p \in Calls :
            (Blocked(p) /\ closed[Finish(p)]) => ENABLED Select(p))
    /\ \A p \in Calls :
          CancelledInStartup(p)
              ~> (Returned(p) /\ Len(completed[p]) = Len(runnerFuncs)
                              /\ deferred[p] = <<>>)

\* The cancelAll of killMainWhenDone has closed and deleted the channel of
\* the call of main and returned, while the call has invoked the first of
\* its MaxRunners runners and received no signal.
C18_Witness ==
    /\ cpc["kill"] = "exit"
    /\ CancelledInStartup(MainCall)
    /\ Uuid(MainCall) \notin DOMAIN signals
    /\ Len(runnerFuncs) = MaxRunners
    /\ Len(deferred[MainCall]) = 1
    /\ c[MainCall] = <<>>

\* Call p has subscribed c and has not reached its select, and c holds a
\* signal.
SignalledInStartup(p) ==
    /\ pc[p] \in {"addChannel", "store", "runners"}
    /\ c[p] # <<>>

\* C19: a watched signal sent to a call after it subscribed and before its
\* select is put into c, which holds at most SigChanCap signals, all of them
\* watched; it stays there while the call registers and invokes its runners,
\* makes the select ready as soon as the call reaches it, and the call
\* returns without any further signal.
C19_EarlySignalRetained ==
    /\ [](\A p \in Calls :
            /\ Len(c[p]) <= SigChanCap
            /\ Range(c[p]) \subseteq watched[p]
            /\ (Blocked(p) /\ c[p] # <<>>) => ENABLED Select(p))
    /\ [][\A p \in Calls :
            /\ SignalledInStartup(p) => c'[p] = c[p]
            /\ \A s \in SentSignals :
                  (/\ DeliverSignal(s)
                   /\ s \in watched[p]
                   /\ pc[p] \in {"addChannel", "store", "runners"}
                   /\ c[p] = <<>>) => c'[p] = <<s>>]_vars
    /\ \A p \in Calls :
          SignalledInStartup(p)
              ~> (Returned(p) /\ Len(completed[p]) = Len(runnerFuncs))

\* The call of main holds SIGINT in c while it is between two runners; no
\* cancelAll has been started.
C19_Witness ==
    /\ pc[MainCall] = "runners"
    /\ Len(deferred[MainCall]) = 1
    /\ c[MainCall] = <<"SIGINT">>
    /\ ~closed[Finish(MainCall)]
    /\ cpc["test"] = "off"
    /\ ~ctxDone
====
